---- MODULE Spec2Model ----
(***************************************************************************)
(* Pipeline configuration objects (SdxlFinetuneConfig,                     *)
(* SdDirectPreferenceOptimizationLoraConfig, SdxlLoraConfig) and the       *)
(* SdxlLoraConfigGroup form that mirrors an SdxlLoraConfig as widgets.     *)
(*                                                                         *)
(* Python objects live in an object store (heap) so that copying, aliasing *)
(* and in-place mutation are visible.  Python values are tagged tuples:    *)
(* None, Num(n), Str(s), Bool(b), List(seq), Text(lines), Ref(r).          *)
(***************************************************************************)
EXTENDS Integers, Sequences, FiniteSets, TLC

VARIABLES
    pc,         \* "start" | "idle" | "rejected" | "editing" | "returned" | "raised"
    kind,       \* the pipeline type the user is configuring
    raw,        \* the user-supplied input mapping (config file): key -> value
    heap,       \* object store: reference -> object (field -> value)
    config,     \* reference to the application's current config, or NoRef
    ui_data,    \* the form state: widget -> value (a Python dict, mutated in place)
    ret,        \* reference returned by the last call, or NoRef
    err,        \* error raised by the last construction / call, or "none"
    pre_heap,   \* the object store as it was when the last call started
    pre_ui,     \* ui_data as it was when the last call started
    changes,    \* number of user inputs made so far (file keys and form edits)
    edits,      \* number of changes made to the form state since it was filled
    last        \* the form state the current config was copied back from, and the
                \* number of changes it had received (NoForm for a config from a file)

vars == <<pc, kind, raw, heap, config, ui_data, ret, err, pre_heap, pre_ui, changes, edits, last>>

----------------------------------------------------------------------------
(* Bounds of the model. *)

\* Total number of user inputs (file keys written, widgets edited) in a behaviour.
MaxChanges == 2
\* Size of the object store.
MaxRefs == 12

----------------------------------------------------------------------------
(* Python values. *)

None == <<"None">>
Num(n) == <<"num", n>>
Str(s) == <<"str", s>>
Bool(b) == <<"bool", b>>
List(s) == <<"list", s>>
Text(lines) == <<"text", lines>>
Ref(r) == <<"ref", r>>

IsRef(v) == v[1] = "ref"

\* Python's len() of a list value.
PyLen(v) == Len(v[2])

\* The empty mapping, and mappings as functions with a finite domain.
EmptyMap == [k \in {} |-> None]
MapPut(m, k, v) == [x \in DOMAIN m \cup {k} |-> IF x = k THEN v ELSE m[x]]
MapDel(m, k) == [x \in DOMAIN m \ {k} |-> m[x]]

NoRef == 0
Refs == 1..MaxRefs

\* No form state: the current config was not copied back from a form.
NoForm == [ui |-> EmptyMap, edits |-> 0]

----------------------------------------------------------------------------
(* The configuration classes: fields and their defaults. *)

Kinds == {"SDXL_FINETUNE", "SD_DIRECT_PREFERENCE_OPTIMIZATION_LORA", "SDXL_LORA"}

\* An empty dict value (base_embeddings).
EmptyDict == <<"dict", <<>>>>

\* class SdxlFinetuneConfig: the scalar fields and their defaults.  The nested
\* optimizer and data_loader objects are attached on construction.
SdxlFinetuneDefaults ==
    [type |-> Str("SDXL_FINETUNE"),
     model |-> Str("stabilityai/stable-diffusion-xl-base-1.0"),
     hf_variant |-> Str("fp16"),
     save_checkpoint_format |-> Str("trained_only_diffusers"),
     save_dtype |-> Str("float16"),
     lr_scheduler |-> Str("constant"),
     lr_warmup_steps |-> Num(0),
     min_snr_gamma |-> Num(5),
     cache_text_encoder_outputs |-> Bool(FALSE),
     cache_vae_outputs |-> Bool(FALSE),
     enable_cpu_offload_during_validation |-> Bool(FALSE),
     gradient_accumulation_steps |-> Num(1),
     weight_dtype |-> Str("bfloat16"),
     mixed_precision |-> Str("no"),
     xformers |-> Bool(FALSE),
     gradient_checkpointing |-> Bool(FALSE),
     max_checkpoints |-> None,
     prediction_type |-> None,
     max_grad_norm |-> None,
     validation_prompts |-> List(<<>>),
     negative_validation_prompts |-> None,
     num_validation_images_per_prompt |-> Num(4),
     train_batch_size |-> Num(4),
     use_masks |-> Bool(FALSE),
     vae_model |-> None]

\* class SdDirectPreferenceOptimizationLoraConfig.
SdDirectPreferenceOptimizationLoraDefaults ==
    [type |-> Str("SD_DIRECT_PREFERENCE_OPTIMIZATION_LORA"),
     model |-> Str("runwayml/stable-diffusion-v1-5"),
     hf_variant |-> Str("fp16"),
     base_embeddings |-> EmptyDict,
     lora_checkpoint_format |-> Str("kohya"),
     train_unet |-> Bool(TRUE),
     train_text_encoder |-> Bool(TRUE),
     text_encoder_learning_rate |-> None,
     unet_learning_rate |-> None,
     lr_scheduler |-> Str("constant"),
     lr_warmup_steps |-> Num(0),
     min_snr_gamma |-> Num(5),
     lora_rank_dim |-> Num(4),
     cache_text_encoder_outputs |-> Bool(FALSE),
     cache_vae_outputs |-> Bool(FALSE),
     enable_cpu_offload_during_validation |-> Bool(FALSE),
     gradient_accumulation_steps |-> Num(1),
     weight_dtype |-> Str("bfloat16"),
     mixed_precision |-> Str("no"),
     xformers |-> Bool(FALSE),
     gradient_checkpointing |-> Bool(FALSE),
     max_checkpoints |-> None,
     prediction_type |-> None,
     max_grad_norm |-> None,
     validation_prompts |-> List(<<>>),
     negative_validation_prompts |-> None,
     num_validation_images_per_prompt |-> Num(4),
     train_batch_size |-> Num(4),
     initial_lora |-> None,
     beta |-> Num(5000)]

\* class SdxlLoraConfig (stable_diffusion_xl/lora/config.py): the fields that
\* SdxlLoraConfigGroup reads and writes, the base-pipeline field
\* validate_every_n_epochs, and the fields no widget mirrors.
SdxlLoraDefaults ==
    [type |-> Str("SDXL_LORA"),
     model |-> Str("stabilityai/stable-diffusion-xl-base-1.0"),
     hf_variant |-> Str("fp16"),
     vae_model |-> None,
     max_checkpoints |-> None,
     train_unet |-> Bool(TRUE),
     unet_learning_rate |-> None,
     train_text_encoder |-> Bool(TRUE),
     text_encoder_learning_rate |-> None,
     lr_scheduler |-> Str("constant"),
     lr_warmup_steps |-> Num(0),
     use_masks |-> Bool(FALSE),
     max_grad_norm |-> None,
     train_batch_size |-> Num(4),
     cache_text_encoder_outputs |-> Bool(FALSE),
     cache_vae_outputs |-> Bool(FALSE),
     enable_cpu_offload_during_validation |-> Bool(FALSE),
     gradient_accumulation_steps |-> Num(1),
     weight_dtype |-> Str("bfloat16"),
     gradient_checkpointing |-> Bool(FALSE),
     lora_rank_dim |-> Num(4),
     min_snr_gamma |-> Num(5),
     validation_prompts |-> List(<<>>),
     negative_validation_prompts |-> None,
     num_validation_images_per_prompt |-> Num(4),
     validate_every_n_epochs |-> Num(1),
     mixed_precision |-> Str("no"),
     xformers |-> Bool(FALSE),
     prediction_type |-> None]

Defaults(k) ==
    CASE k = "SDXL_FINETUNE" -> SdxlFinetuneDefaults
      [] k = "SD_DIRECT_PREFERENCE_OPTIMIZATION_LORA" -> SdDirectPreferenceOptimizationLoraDefaults
      [] k = "SDXL_LORA" -> SdxlLoraDefaults

\* The optimizer sub-config: optimizer: AdamOptimizerConfig | ProdigyOptimizerConfig
\* = AdamOptimizerConfig().
OptimizerDefaults == [optimizer_type |-> Str("AdamW"), learning_rate |-> Num(1), weight_decay |-> Num(0)]

\* The data_loader sub-config of SdxlFinetuneConfig and SdxlLoraConfig.
DataLoaderDefaults == [type |-> Str("IMAGE_CAPTION_SD_DATA_LOADER"), caption_prefix |-> None,
                       dataloader_num_workers |-> Num(0)]

\* class ImagePairPreferenceSDDataLoaderConfig; its dataset is attached on construction.
ImagePairPreferenceSDDataLoaderDefaults ==
    [type |-> Str("IMAGE_PAIR_PREFERENCE_SD_DATA_LOADER"),
     resolution |-> Num(512),
     center_crop |-> Bool(TRUE),
     random_flip |-> Bool(FALSE),
     dataloader_num_workers |-> Num(0)]

----------------------------------------------------------------------------
(* Type-correct values a user can supply for a field. *)

OptionalNumberValues == {None, Num(0), Num(1)}
NumberValues == {Num(0), Num(1)}
BoolValues == {Bool(TRUE), Bool(FALSE)}
LrSchedulerOptions == {Str("linear"), Str("cosine"), Str("cosine_with_restarts"), Str("polynomial"),
                       Str("constant"), Str("constant_with_warmup")}
DtypeOptions == {Str("float32"), Str("float16"), Str("bfloat16")}
PositivePromptLists == {List(<<>>), List(<<"a">>), List(<<"a", "b">>)}
NegativePromptLists == {None, List(<<>>), List(<<"n">>), List(<<"n", "n">>)}

FieldValues(f) ==
    CASE f = "model" -> {Str(""), Str("m")}
      [] f \in {"hf_variant", "vae_model", "initial_lora"} -> {None, Str(""), Str("v")}
      [] f \in {"unet_learning_rate", "text_encoder_learning_rate", "max_grad_norm",
                "min_snr_gamma", "max_checkpoints"} -> OptionalNumberValues
      [] f \in {"lr_warmup_steps", "gradient_accumulation_steps", "lora_rank_dim",
                "num_validation_images_per_prompt", "train_batch_size", "beta",
                "validate_every_n_epochs"} -> NumberValues
      [] f \in {"train_unet", "train_text_encoder", "use_masks", "cache_text_encoder_outputs",
                "cache_vae_outputs", "enable_cpu_offload_during_validation",
                "gradient_checkpointing", "xformers"} -> BoolValues
      [] f = "lr_scheduler" -> LrSchedulerOptions
      [] f \in {"weight_dtype", "save_dtype"} -> DtypeOptions
      [] f = "mixed_precision" -> {Str("no"), Str("fp16"), Str("bf16"), Str("fp8")}
      [] f = "save_checkpoint_format" -> {Str("full_diffusers"), Str("trained_only_diffusers")}
      [] f = "lora_checkpoint_format" -> {Str("invoke_peft"), Str("kohya")}
      [] f = "prediction_type" -> {None, Str("epsilon"), Str("v_prediction")}
      [] f = "validation_prompts" -> PositivePromptLists
      [] f = "negative_validation_prompts" -> NegativePromptLists
      [] OTHER -> {}

\* Keys of the input mapping besides the top-level fields: the dataset of the
\* DPO pipeline's data_loader.
DatasetTags == {"IMAGE_PAIR_PREFERENCE_DATASET", "HF_HUB_IMAGE_PAIR_PREFERENCE_DATASET"}
DatasetKeys == {"dataset.type", "dataset.dataset_dir"}

\* The keys the config files of the model set: the prompt lists, the optional
\* and sentinel-valued fields, one field no widget mirrors, and the dataset.
FileKeys ==
    {"model", "hf_variant", "vae_model", "unet_learning_rate", "text_encoder_learning_rate",
     "max_grad_norm", "min_snr_gamma", "max_checkpoints", "lr_warmup_steps", "lora_rank_dim",
     "validation_prompts", "negative_validation_prompts", "xformers"}

RawKeys(k) ==
    (FileKeys \cap DOMAIN Defaults(k))
        \cup (IF k = "SD_DIRECT_PREFERENCE_OPTIMIZATION_LORA" THEN DatasetKeys ELSE {})

RawValues(key) ==
    CASE key = "dataset.type" -> {Str(t) : t \in DatasetTags} \cup {Str("IMAGE_CAPTION_DATASET")}
      [] key = "dataset.dataset_dir" -> {Str("/data")}
      [] OTHER -> FieldValues(key)

----------------------------------------------------------------------------
(* The object store. *)

EmptyHeap == EmptyMap

\* The lowest free reference.
FreshRef(h) == CHOOSE r \in Refs \ DOMAIN h : \A s \in Refs \ DOMAIN h : r <= s

\* Allocate an object; the result carries the new store and the object's reference.
Alloc(h, obj) == [heap |-> MapPut(h, FreshRef(h), obj), ref |-> FreshRef(h)]

\* obj.field = value, in place.
SetAttr(h, r, f, v) == [h EXCEPT ![r] = MapPut(h[r], f, v)]

\* The objects an object refers to directly.
Children(h, r) == {h[r][f][2] : f \in {g \in DOMAIN h[r] : IsRef(h[r][g])}}

\* The objects reachable from r: a config, its sub-configs and their sub-configs.
Reachable(h, r) ==
    LET l1 == {r} \cup Children(h, r)
        l2 == l1 \cup UNION {Children(h, x) : x \in l1}
    IN  l2 \cup UNION {Children(h, x) : x \in l2}

\* A deep copy of the object r of the store src, created in the store dst: the
\* object and every object it refers to are copied into new objects.
RECURSIVE CopyChildren(_, _, _, _)
RECURSIVE CopyObject(_, _, _)
CopyChildren(src, dst, obj, fs) ==
    IF fs = {} THEN [heap |-> dst, obj |-> obj]
    ELSE LET f == CHOOSE x \in fs : TRUE
             c == CopyObject(src, dst, obj[f][2])
         IN  CopyChildren(src, c.heap, MapPut(obj, f, Ref(c.ref)), fs \ {f})
CopyObject(src, dst, r) ==
    LET c == CopyChildren(src, dst, src[r], {f \in DOMAIN src[r] : IsRef(src[r][f])})
    IN  Alloc(c.heap, c.obj)

\* Objects no live reference reaches are reclaimed.
Collect(h, roots) ==
    LET live == UNION {Reachable(h, r) : r \in roots \ {NoRef}}
    IN  [r \in DOMAIN h \cap live |-> h[r]]

\* The value of an object with its sub-objects inlined: what == compares on
\* two pydantic models.
RECURSIVE Snapshot(_, _)
Snapshot(h, r) ==
    [f \in DOMAIN h[r] |-> IF IsRef(h[r][f]) THEN <<"obj", Snapshot(h, h[r][f][2])>> ELSE h[r][f]]

----------------------------------------------------------------------------
(* Construction and validation. *)

\* Variant: the lengths are compared with > instead of !=.
check_validation_prompts_gt(self) ==
    IF /\ self["negative_validation_prompts"] # None
       /\ PyLen(self["negative_validation_prompts"]) > PyLen(self["validation_prompts"])
    THEN "ValueError"
    ELSE "none"

\* Variant: a missing negative list is treated as an empty one.
check_validation_prompts_none_as_empty(self) ==
    LET neg == IF self["negative_validation_prompts"] = None
               THEN List(<<>>) ELSE self["negative_validation_prompts"]
    IN  IF PyLen(neg) # PyLen(self["validation_prompts"]) THEN "ValueError" ELSE "none"

\* Variant: the negative list is tested for truthiness instead of against None.
check_validation_prompts_truthy(self) ==
    IF /\ ~(self["negative_validation_prompts"] \in {None, List(<<>>)})
       /\ PyLen(self["negative_validation_prompts"]) # PyLen(self["validation_prompts"])
    THEN "ValueError"
    ELSE "none"

\* @model_validator(mode="after") check_validation_prompts, identical in
\* SdxlFinetuneConfig and SdDirectPreferenceOptimizationLoraConfig: the error it
\* raises on the validated fields, or "none".
check_validation_prompts(self) ==
    IF /\ self["negative_validation_prompts"] # None
       /\ PyLen(self["negative_validation_prompts"]) # PyLen(self["validation_prompts"])
    THEN "ValueError"
    ELSE "none"

\* The variants of ImagePairPreferenceSDDataLoaderConfig.dataset: each class, the
\* Literal of its type field, and its required fields.
HFHubImagePairPreferenceDatasetConfig ==
    [class |-> "HFHubImagePairPreferenceDatasetConfig",
     type |-> "HF_HUB_IMAGE_PAIR_PREFERENCE_DATASET",
     required |-> {}]

\* Variant: dataset_dir declared with a default.
ImagePairPreferenceDatasetConfig_optional_dir ==
    [class |-> "ImagePairPreferenceDatasetConfig",
     type |-> "IMAGE_PAIR_PREFERENCE_DATASET",
     required |-> {}]

ImagePairPreferenceDatasetConfig ==
    [class |-> "ImagePairPreferenceDatasetConfig",
     type |-> "IMAGE_PAIR_PREFERENCE_DATASET",
     required |-> {"dataset_dir"}]

DatasetVariants == {HFHubImagePairPreferenceDatasetConfig, ImagePairPreferenceDatasetConfig}

\* Whether a model rejects or drops input keys it does not declare is set by
\* ConfigBaseModel, which is either of pydantic's policies.
ExtraPolicies == {"forbid", "ignore"}

\* The dataset input of the DPO data loader: the keys below "dataset.".
DatasetInput(r) ==
    [f \in {g \in {"type", "dataset_dir"} : ("dataset." \o g) \in DOMAIN r} |-> r["dataset." \o f]]

\* Annotated[Union[HFHub..., ImagePair...], Field(discriminator="type")]: the tag
\* selects the variant, whose fields are then validated.
DiscriminatedDataset(inp, policy) ==
    IF "type" \notin DOMAIN inp
    THEN [err |-> "ValidationError", obj |-> EmptyMap]
    ELSE LET match == {v \in DatasetVariants : Str(v.type) = inp["type"]}
         IN  IF match = {}
             THEN [err |-> "ValidationError", obj |-> EmptyMap]
             ELSE LET v == CHOOSE x \in match : TRUE
                      declared == {"type"} \cup v.required
                      extra == DOMAIN inp \ declared
                  IN  IF \/ ~(v.required \subseteq DOMAIN inp)
                         \/ (extra # {} /\ policy = "forbid")
                      THEN [err |-> "ValidationError", obj |-> EmptyMap]
                      ELSE [err |-> "none",
                            obj |-> [f \in {"__class__"} \cup declared |->
                                        IF f = "__class__" THEN Str(v.class) ELSE inp[f]]]

\* The outcome of constructing a config of kind k from the input mapping r:
\* field validation first, the model validator after it.
Validate(k, r, policy) ==
    LET fields == [f \in DOMAIN Defaults(k) |-> IF f \in DOMAIN r THEN r[f] ELSE Defaults(k)[f]]
        ds == IF k = "SD_DIRECT_PREFERENCE_OPTIMIZATION_LORA"
              THEN DiscriminatedDataset(DatasetInput(r), policy)
              ELSE [err |-> "none", obj |-> EmptyMap]
    IN  [fields |-> fields,
         dataset |-> ds.obj,
         err |-> IF ds.err # "none" THEN ds.err ELSE check_validation_prompts(fields)]

\* The objects of a validated config are created: optimizer, data_loader (with
\* its dataset for the DPO pipeline), then the config that refers to them.
Build(h, k, v) ==
    LET opt == Alloc(h, OptimizerDefaults)
        dl == IF k = "SD_DIRECT_PREFERENCE_OPTIMIZATION_LORA"
              THEN LET d == Alloc(opt.heap, v.dataset)
                   IN  Alloc(d.heap, MapPut(ImagePairPreferenceSDDataLoaderDefaults, "dataset", Ref(d.ref)))
              ELSE Alloc(opt.heap, DataLoaderDefaults)
    IN  Alloc(dl.heap, MapPut(MapPut(v.fields, "optimizer", Ref(opt.ref)), "data_loader", Ref(dl.ref)))

----------------------------------------------------------------------------
(* SdxlLoraConfigGroup: the widgets. *)

\* The components SdxlLoraConfigGroup.__init__ creates as attributes of the group.
TextboxWidgets == {"model", "hf_variant", "vae_model", "validation_prompts"}
NumberWidgets == {"max_checkpoints", "gradient_accumulation_steps", "unet_learning_rate",
                  "text_encoder_learning_rate", "lr_warmup_steps", "lora_rank_dim",
                  "min_snr_gamma", "max_grad_norm", "train_batch_size",
                  "num_validation_images_per_prompt"}
DropdownWidgets == {"weight_dtype", "lr_scheduler"}
CheckboxWidgets == {"cache_text_encoder_outputs", "cache_vae_outputs",
                    "enable_cpu_offload_during_validation", "gradient_checkpointing",
                    "train_unet", "train_text_encoder", "use_masks"}
OwnWidgets == TextboxWidgets \cup NumberWidgets \cup DropdownWidgets \cup CheckboxWidgets

\* The widgets of the three sub-groups the group creates: BasePipelineConfigGroup,
\* ImageCaptionSDDataLoaderConfigGroup, OptimizerConfigGroup.
BasePipelineWidgets == {"validate_every_n_epochs"}
DataLoaderWidgets == {"caption_prefix"}
OptimizerWidgets == {"learning_rate"}

\* UIConfigElement.get_ui_output_components: the group's own components and
\* those of its sub-groups.
get_ui_output_components ==
    OwnWidgets \cup BasePipelineWidgets \cup DataLoaderWidgets \cup OptimizerWidgets

\* A component that belongs to no widget of the group or its sub-groups.
ForeignComponent == "foreign_component"

\* The validation-prompts textbox holds lines; a line is a prompt, optionally
\* followed by the "[NEG]" delimiter and a negative prompt.
MaxLines == 2
PromptLines == {<<>>, <<"a">>, <<"a", "[NEG]", "n">>}
RECURSIVE SeqsUpTo(_, _)
SeqsUpTo(S, n) ==
    IF n = 0 THEN {<<>>}
    ELSE SeqsUpTo(S, n - 1) \cup {Append(q, x) : q \in {t \in SeqsUpTo(S, n - 1) : Len(t) = n - 1}, x \in S}
PromptTexts == {Text(t) : t \in SeqsUpTo(PromptLines, MaxLines)}

\* The values a widget can hold, by the kind of component.
WidgetValues(w) ==
    CASE w = "validation_prompts" -> PromptTexts
      [] w = "model" -> {Str(""), Str("m")}
      [] w \in {"hf_variant", "vae_model", "caption_prefix"} -> {None, Str(""), Str("v")}
      [] w \in NumberWidgets \cup {"validate_every_n_epochs", "learning_rate"} -> OptionalNumberValues
      [] w = "weight_dtype" -> DtypeOptions
      [] w = "lr_scheduler" -> LrSchedulerOptions
      [] w \in CheckboxWidgets -> BoolValues
      [] OTHER -> {None}

----------------------------------------------------------------------------
(* ui/utils/prompts.py: the config's prompt lists and the textbox's lines. *)

Min(a, b) == IF a < b THEN a ELSE b

\* One line per validation prompt, with its negative prompt after the delimiter
\* when there is one.
convert_pos_neg_prompts_to_ui_prompts(pos, neg) ==
    IF neg = None
    THEN Text([i \in 1..PyLen(pos) |-> <<pos[2][i]>>])
    ELSE Text([i \in 1..Min(PyLen(pos), PyLen(neg)) |->
                  IF neg[2][i] = "" THEN <<pos[2][i]>> ELSE <<pos[2][i], "[NEG]", neg[2][i]>>])

\* The non-empty lines of the textbox, in order.
RECURSIVE NonEmptyLines(_)
NonEmptyLines(lines) ==
    IF lines = <<>> THEN <<>>
    ELSE IF Head(lines) = <<>> THEN NonEmptyLines(Tail(lines))
    ELSE <<Head(lines)>> \o NonEmptyLines(Tail(lines))

\* Each non-empty line yields one positive and one negative prompt (the empty
\* string when the line has no delimiter).
convert_ui_prompts_to_pos_neg_prompts(text) ==
    LET ls == NonEmptyLines(text[2])
    IN  [pos |-> List([i \in 1..Len(ls) |-> ls[i][1]]),
         neg |-> List([i \in 1..Len(ls) |-> IF Len(ls[i]) >= 3 THEN ls[i][3] ELSE ""])]

----------------------------------------------------------------------------
(* SdxlLoraConfigGroup.update_ui_components_with_config_data *)

\* Variant: the dict literal lacks the entry of one widget.
UpdateDictReads_forgot_use_masks ==
    [model |-> "model",
     hf_variant |-> "hf_variant",
     vae_model |-> "vae_model",
     max_checkpoints |-> "max_checkpoints",
     train_unet |-> "train_unet",
     unet_learning_rate |-> "unet_learning_rate",
     train_text_encoder |-> "train_text_encoder",
     text_encoder_learning_rate |-> "text_encoder_learning_rate",
     lr_scheduler |-> "lr_scheduler",
     lr_warmup_steps |-> "lr_warmup_steps",
     max_grad_norm |-> "max_grad_norm",
     train_batch_size |-> "train_batch_size",
     cache_text_encoder_outputs |-> "cache_text_encoder_outputs",
     cache_vae_outputs |-> "cache_vae_outputs",
     enable_cpu_offload_during_validation |-> "enable_cpu_offload_during_validation",
     gradient_accumulation_steps |-> "gradient_accumulation_steps",
     weight_dtype |-> "weight_dtype",
     gradient_checkpointing |-> "gradient_checkpointing",
     lora_rank_dim |-> "lora_rank_dim",
     min_snr_gamma |-> "min_snr_gamma",
     validation_prompts |-> "validation_prompts",
     num_validation_images_per_prompt |-> "num_validation_images_per_prompt"]

\* The entries of update_dict: widget -> the config field whose value it is given.
UpdateDictReads ==
    [model |-> "model",
     hf_variant |-> "hf_variant",
     vae_model |-> "vae_model",
     max_checkpoints |-> "max_checkpoints",
     train_unet |-> "train_unet",
     unet_learning_rate |-> "unet_learning_rate",
     train_text_encoder |-> "train_text_encoder",
     text_encoder_learning_rate |-> "text_encoder_learning_rate",
     lr_scheduler |-> "lr_scheduler",
     lr_warmup_steps |-> "lr_warmup_steps",
     use_masks |-> "use_masks",
     max_grad_norm |-> "max_grad_norm",
     train_batch_size |-> "train_batch_size",
     cache_text_encoder_outputs |-> "cache_text_encoder_outputs",
     cache_vae_outputs |-> "cache_vae_outputs",
     enable_cpu_offload_during_validation |-> "enable_cpu_offload_during_validation",
     gradient_accumulation_steps |-> "gradient_accumulation_steps",
     weight_dtype |-> "weight_dtype",
     gradient_checkpointing |-> "gradient_checkpointing",
     lora_rank_dim |-> "lora_rank_dim",
     min_snr_gamma |-> "min_snr_gamma",
     validation_prompts |-> "validation_prompts",
     num_validation_images_per_prompt |-> "num_validation_images_per_prompt"]

\* Variant: the lr_warmup_steps widget is given gradient_accumulation_steps.
OwnUpdateDict_warmup_from_accumulation(c) ==
    [w \in DOMAIN UpdateDictReads |->
        IF w = "validation_prompts"
        THEN convert_pos_neg_prompts_to_ui_prompts(c["validation_prompts"], c["negative_validation_prompts"])
        ELSE IF w = "lr_warmup_steps" THEN c["gradient_accumulation_steps"]
        ELSE c[UpdateDictReads[w]]]

\* update_dict as the dict literal builds it from the config object c.
OwnUpdateDict(c) ==
    [w \in DOMAIN UpdateDictReads |->
        IF w = "validation_prompts"
        THEN convert_pos_neg_prompts_to_ui_prompts(c["validation_prompts"], c["negative_validation_prompts"])
        ELSE c[UpdateDictReads[w]]]

\* A sub-group's update_ui_components_with_config_data: each of its widgets is
\* given the field of the same name.
SubGroupUpdateDict(c, widgets) == [w \in widgets |-> c[w]]

\* dict.update
DictUpdate(d, e) == [k \in DOMAIN d \cup DOMAIN e |-> IF k \in DOMAIN e THEN e[k] ELSE d[k]]

\* The whole function: the mapping it returns, or the failed sanity assertion.
update_ui_components_with_config_data(h, c) ==
    LET d1 == OwnUpdateDict(h[c])
        d2 == DictUpdate(d1, SubGroupUpdateDict(h[h[c]["data_loader"][2]], DataLoaderWidgets))
        d3 == DictUpdate(d2, SubGroupUpdateDict(h[c], BasePipelineWidgets))
        d4 == DictUpdate(d3, SubGroupUpdateDict(h[h[c]["optimizer"][2]], OptimizerWidgets))
    IN  IF DOMAIN d4 = get_ui_output_components
        THEN [err |-> "none", update_dict |-> d4]
        ELSE [err |-> "AssertionError", update_dict |-> EmptyMap]

----------------------------------------------------------------------------
(* SdxlLoraConfigGroup.update_config_with_ui_component_data *)

\* Python truthiness of a value: None, "", 0, False and [] are falsy.
Falsy(v) == v \in {None, Str(""), Num(0), Bool(FALSE), List(<<>>), Text(<<>>)}

\* Python's v == 0.
EqualsZero(v) == v \in {Num(0), Bool(FALSE)}

\* Variant: every assignment is written with "or None".
Stored_or_none_everywhere(norm, v) ==
    CASE norm = "copy" -> IF Falsy(v) THEN None ELSE v
      [] norm = "or_none" -> IF Falsy(v) THEN None ELSE v
      [] norm = "zero_none" -> IF EqualsZero(v) THEN None ELSE v

\* Variant: the sentinel 0 is stored as it is.
Stored_without_sentinel(norm, v) ==
    CASE norm = "copy" -> v
      [] norm = "or_none" -> IF Falsy(v) THEN None ELSE v
      [] norm = "zero_none" -> v

\* Variant: every number is stored with the sentinel rule.
Stored_sentinel_everywhere(norm, v) ==
    CASE norm = "copy" -> IF v = Num(0) THEN None ELSE v
      [] norm = "or_none" -> IF Falsy(v) THEN None ELSE v
      [] norm = "zero_none" -> IF EqualsZero(v) THEN None ELSE v

\* Variant: the optional text boxes are stored as entered.
Stored_text_as_entered(norm, v) ==
    CASE norm = "copy" -> v
      [] norm = "or_none" -> v
      [] norm = "zero_none" -> IF EqualsZero(v) THEN None ELSE v

\* The three ways a popped form value is stored.
\*   "copy":      new_config.f = ui_data.pop(w)
\*   "or_none":   new_config.f = ui_data.pop(w) or None
\*   "zero_none": x = ui_data.pop(w); new_config.f = None if x == 0 else x
Stored(norm, v) ==
    CASE norm = "copy" -> v
      [] norm = "or_none" -> IF Falsy(v) THEN None ELSE v
      [] norm = "zero_none" -> IF EqualsZero(v) THEN None ELSE v

\* The pops of the group's own scalar widgets, in program order: the widget
\* popped, the field assigned, and how the value is stored.
Statements ==
    << [w |-> "model", f |-> "model", norm |-> "copy"],
       [w |-> "hf_variant", f |-> "hf_variant", norm |-> "or_none"],
       [w |-> "vae_model", f |-> "vae_model", norm |-> "or_none"],
       [w |-> "max_checkpoints", f |-> "max_checkpoints", norm |-> "copy"],
       [w |-> "train_unet", f |-> "train_unet", norm |-> "copy"],
       [w |-> "unet_learning_rate", f |-> "unet_learning_rate", norm |-> "zero_none"],
       [w |-> "train_text_encoder", f |-> "train_text_encoder", norm |-> "copy"],
       [w |-> "text_encoder_learning_rate", f |-> "text_encoder_learning_rate", norm |-> "zero_none"],
       [w |-> "lr_scheduler", f |-> "lr_scheduler", norm |-> "copy"],
       [w |-> "lr_warmup_steps", f |-> "lr_warmup_steps", norm |-> "copy"],
       [w |-> "use_masks", f |-> "use_masks", norm |-> "copy"],
       [w |-> "max_grad_norm", f |-> "max_grad_norm", norm |-> "zero_none"],
       [w |-> "train_batch_size", f |-> "train_batch_size", norm |-> "copy"],
       [w |-> "cache_text_encoder_outputs", f |-> "cache_text_encoder_outputs", norm |-> "copy"],
       [w |-> "cache_vae_outputs", f |-> "cache_vae_outputs", norm |-> "copy"],
       [w |-> "enable_cpu_offload_during_validation", f |-> "enable_cpu_offload_during_validation",
        norm |-> "copy"],
       [w |-> "gradient_accumulation_steps", f |-> "gradient_accumulation_steps", norm |-> "copy"],
       [w |-> "weight_dtype", f |-> "weight_dtype", norm |-> "copy"],
       [w |-> "gradient_checkpointing", f |-> "gradient_checkpointing", norm |-> "copy"],
       [w |-> "lora_rank_dim", f |-> "lora_rank_dim", norm |-> "copy"],
       [w |-> "min_snr_gamma", f |-> "min_snr_gamma", norm |-> "copy"],
       [w |-> "num_validation_images_per_prompt", f |-> "num_validation_images_per_prompt",
        norm |-> "copy"] >>

\* orig_config.model_copy(deep=True): the config and every object it refers to
\* are copied into new objects.
DeepCopy(h, r) == CopyObject(h, h, r)

\* Variant: new_config is a newly constructed default config.
model_copy_fresh(h, r) == Build(h, "SDXL_LORA", [fields |-> SdxlLoraDefaults, dataset |-> EmptyMap])

\* Variant: new_config = orig_config, no copy is made.
model_copy_alias(h, r) == [heap |-> h, ref |-> r]

model_copy(h, r) == DeepCopy(h, r)

\* Variant: the hf_variant and vae_model assignments are swapped.
PopAssign_swapped_text(m, s) ==
    IF s.w \notin DOMAIN m.ui
    THEN [m EXCEPT !.err = "KeyError"]
    ELSE [m EXCEPT !.heap = SetAttr(m.heap, m.new,
                                    CASE s.w = "hf_variant" -> "vae_model"
                                      [] s.w = "vae_model" -> "hf_variant"
                                      [] OTHER -> s.f,
                                    Stored(s.norm, m.ui[s.w])),
                   !.ui = MapDel(m.ui, s.w)]

\* Variant: the entry is popped with a default, ui_data.pop(w, None).
PopAssign_with_default(m, s) ==
    IF s.w \notin DOMAIN m.ui
    THEN [m EXCEPT !.heap = SetAttr(m.heap, m.new, s.f, Stored(s.norm, None))]
    ELSE [m EXCEPT !.heap = SetAttr(m.heap, m.new, s.f, Stored(s.norm, m.ui[s.w])),
                   !.ui = MapDel(m.ui, s.w)]

\* Variant: the train_unet checkbox is written to train_text_encoder.
PopAssign_cross_checkboxes(m, s) ==
    IF s.w \notin DOMAIN m.ui
    THEN [m EXCEPT !.err = "KeyError"]
    ELSE [m EXCEPT !.heap = SetAttr(m.heap, m.new,
                                    IF s.w = "train_unet" THEN "train_text_encoder" ELSE s.f,
                                    Stored(s.norm, m.ui[s.w])),
                   !.ui = MapDel(m.ui, s.w)]

\* The running state of a call: the store, the dict, the local new_config and
\* the exception raised so far.
\* One pop-and-assign statement.
PopAssign(m, s) ==
    IF s.w \notin DOMAIN m.ui
    THEN [m EXCEPT !.err = "KeyError"]
    ELSE [m EXCEPT !.heap = SetAttr(m.heap, m.new, s.f, Stored(s.norm, m.ui[s.w])),
                   !.ui = MapDel(m.ui, s.w)]

\* The statements from position i on; an exception ends the call.
RECURSIVE RunStatements(_, _)
RunStatements(m, i) ==
    IF i > Len(Statements) \/ m.err # "none" THEN m
    ELSE RunStatements(PopAssign(m, Statements[i]), i + 1)

\* Variant: only the positive prompts are assigned.
AssignPrompts_positive_only(h, r, prompts) ==
    SetAttr(h, r, "validation_prompts", prompts.pos)

\* new_config.validation_prompts = positive_prompts
\* new_config.negative_validation_prompts = negative_prompts
AssignPrompts(h, r, prompts) ==
    SetAttr(SetAttr(h, r, "validation_prompts", prompts.pos),
            r, "negative_validation_prompts", prompts.neg)

\* Variant: the textbox is read with ui_data[...] and its entry stays in the dict.
PopPrompts_not_popped(m) ==
    IF m.err # "none" THEN m
    ELSE IF "validation_prompts" \notin DOMAIN m.ui
    THEN [m EXCEPT !.err = "KeyError"]
    ELSE [m EXCEPT !.heap = AssignPrompts(m.heap, m.new,
                                convert_ui_prompts_to_pos_neg_prompts(m.ui["validation_prompts"]))]

\* The validation-prompts textbox is popped, converted and stored.
PopPrompts(m) ==
    IF m.err # "none" THEN m
    ELSE IF "validation_prompts" \notin DOMAIN m.ui
    THEN [m EXCEPT !.err = "KeyError"]
    ELSE [m EXCEPT !.heap = AssignPrompts(m.heap, m.new,
                                convert_ui_prompts_to_pos_neg_prompts(m.ui["validation_prompts"])),
                   !.ui = MapDel(m.ui, "validation_prompts")]

\* A sub-group's update_config_with_ui_component_data(obj, ui_data): a deep copy
\* of obj in which each of the sub-group's widgets, popped from ui_data,
\* replaces the field of the same name.
RECURSIVE SubGroupPops(_, _, _)
SubGroupPops(m, r, ws) ==
    IF ws = {} \/ m.err # "none" THEN m
    ELSE LET w == CHOOSE x \in ws : TRUE
         IN  IF w \notin DOMAIN m.ui
             THEN [m EXCEPT !.err = "KeyError"]
             ELSE SubGroupPops([m EXCEPT !.heap = SetAttr(m.heap, r, w, m.ui[w]),
                                         !.ui = MapDel(m.ui, w)], r, ws \ {w})

SubGroupUpdateConfig(m, r, ws) ==
    LET c == DeepCopy(m.heap, r)
    IN  [st |-> SubGroupPops([m EXCEPT !.heap = c.heap], c.ref, ws), ref |-> c.ref]

\* new_config.data_loader = self.image_caption_sd_data_loader_config_group
\*     .update_config_with_ui_component_data(new_config.data_loader, ui_data)
UpdateDataLoader(m) ==
    IF m.err # "none" THEN m
    ELSE LET u == SubGroupUpdateConfig(m, m.heap[m.new]["data_loader"][2], DataLoaderWidgets)
         IN  IF u.st.err # "none" THEN u.st
             ELSE [u.st EXCEPT !.heap = SetAttr(u.st.heap, m.new, "data_loader", Ref(u.ref))]

\* new_config = self.base_pipeline_config_group
\*     .update_config_with_ui_component_data(new_config, ui_data)
UpdateBasePipeline(m) ==
    IF m.err # "none" THEN m
    ELSE LET u == SubGroupUpdateConfig(m, m.new, BasePipelineWidgets)
         IN  IF u.st.err # "none" THEN u.st
             ELSE [u.st EXCEPT !.new = u.ref]

\* new_config.optimizer = self.optimizer_config_group
\*     .update_config_with_ui_component_data(new_config.optimizer, ui_data)
UpdateOptimizer(m) ==
    IF m.err # "none" THEN m
    ELSE LET u == SubGroupUpdateConfig(m, m.heap[m.new]["optimizer"][2], OptimizerWidgets)
         IN  IF u.st.err # "none" THEN u.st
             ELSE [u.st EXCEPT !.heap = SetAttr(u.st.heap, m.new, "optimizer", Ref(u.ref))]

\* Variant: the sanity assertion is missing.
AssertAllTransferred_skipped(m) == m

\* assert len(ui_data) == 0
AssertAllTransferred(m) ==
    IF m.err # "none" THEN m
    ELSE IF DOMAIN m.ui # {} THEN [m EXCEPT !.err = "AssertionError"]
    ELSE m

\* The whole function, called with the config at orig_config and the dict ui:
\* the store and the dict as the call leaves them, the exception raised, and the
\* reference returned (NoRef when it raised).  Objects the call created and no
\* longer refers to are reclaimed.
update_config_with_ui_component_data(h, orig_config, ui) ==
    LET c == model_copy(h, orig_config)
        m0 == [heap |-> c.heap, ui |-> ui, new |-> c.ref, err |-> "none"]
        m1 == PopPrompts(RunStatements(m0, 1))
        m2 == UpdateOptimizer(UpdateBasePipeline(UpdateDataLoader(m1)))
        m3 == AssertAllTransferred(m2)
        result == IF m3.err = "none" THEN m3.new ELSE NoRef
    IN  [heap |-> Collect(m3.heap, {orig_config, result}),
         ui |-> m3.ui,
         err |-> m3.err,
         ref |-> result]

----------------------------------------------------------------------------
(* The state machine. *)

Init ==
    /\ pc = "start"
    /\ kind \in Kinds
    /\ raw = EmptyMap
    /\ heap = EmptyHeap
    /\ config = NoRef
    /\ ui_data = EmptyMap
    /\ ret = NoRef
    /\ err = "none"
    /\ pre_heap = EmptyHeap
    /\ pre_ui = EmptyMap
    /\ changes = 0
    /\ edits = 0
    /\ last = NoForm

\* The user writes one key of the config file.
WriteInput ==
    /\ pc = "start"
    /\ changes < MaxChanges
    /\ \E key \in RawKeys(kind) \ DOMAIN raw : \E v \in RawValues(key) :
          raw' = MapPut(raw, key, v)
    /\ changes' = changes + 1
    /\ UNCHANGED <<pc, kind, heap, config, ui_data, ret, err, pre_heap, pre_ui, edits, last>>

\* The config is constructed from the file: validated once, at construction.
Construct ==
    /\ pc = "start"
    /\ \E policy \in ExtraPolicies :
          LET v == Validate(kind, raw, policy) IN
          /\ err' = v.err
          /\ IF v.err = "none"
             THEN LET b == Build(heap, kind, v) IN
                  heap' = b.heap /\ config' = b.ref /\ pc' = "idle"
             ELSE heap' = heap /\ config' = NoRef /\ pc' = "rejected"
    /\ UNCHANGED <<kind, raw, ui_data, ret, pre_heap, pre_ui, changes, edits, last>>

\* The form is filled from the current config.
LoadUi ==
    /\ pc = "idle"
    /\ kind = "SDXL_LORA"
    /\ LET u == update_ui_components_with_config_data(heap, config) IN
       /\ err' = u.err
       /\ ui_data' = u.update_dict
       /\ pc' = IF u.err = "none" THEN "editing" ELSE "ui_failed"
    /\ pre_heap' = heap
    /\ pre_ui' = ui_data
    /\ ret' = NoRef
    /\ edits' = 0
    /\ UNCHANGED <<kind, raw, heap, config, changes, last>>

\* The user changes the value of one widget.
EditWidget ==
    /\ pc = "editing"
    /\ changes < MaxChanges
    /\ \E w \in DOMAIN ui_data : \E v \in WidgetValues(w) :
          /\ v # ui_data[w]
          /\ ui_data' = MapPut(ui_data, w, v)
    /\ changes' = changes + 1
    /\ edits' = edits + 1
    /\ UNCHANGED <<pc, kind, raw, heap, config, ret, err, pre_heap, pre_ui, last>>

\* The caller hands over a dict that lacks the entry of one widget.
OmitEntry ==
    /\ pc = "editing"
    /\ changes < MaxChanges
    /\ \E w \in DOMAIN ui_data : ui_data' = MapDel(ui_data, w)
    /\ changes' = changes + 1
    /\ edits' = edits + 1
    /\ UNCHANGED <<pc, kind, raw, heap, config, ret, err, pre_heap, pre_ui, last>>

\* The caller hands over a dict with an entry for a component outside the group.
ExtraEntry ==
    /\ pc = "editing"
    /\ changes < MaxChanges
    /\ ForeignComponent \notin DOMAIN ui_data
    /\ ui_data' = MapPut(ui_data, ForeignComponent, None)
    /\ changes' = changes + 1
    /\ edits' = edits + 1
    /\ UNCHANGED <<pc, kind, raw, heap, config, ret, err, pre_heap, pre_ui, last>>

\* The form is copied back: update_config_with_ui_component_data(config, ui_data).
Submit ==
    /\ pc = "editing"
    /\ LET u == update_config_with_ui_component_data(heap, config, ui_data) IN
       /\ heap' = u.heap
       /\ ui_data' = u.ui
       /\ err' = u.err
       /\ ret' = u.ref
       /\ pc' = IF u.err = "none" THEN "returned" ELSE "raised"
    /\ pre_heap' = heap
    /\ pre_ui' = ui_data
    /\ UNCHANGED <<kind, raw, config, changes, edits, last>>

\* Copy-and-replace: the returned config becomes the current one and the form
\* state is discarded.
Replace ==
    /\ pc = "returned"
    /\ LET moved == CopyObject(heap, EmptyHeap, ret) IN
       \* the old config is reclaimed; references are renumbered from 1
       /\ heap' = moved.heap
       /\ config' = moved.ref
    /\ ret' = NoRef
    /\ ui_data' = EmptyMap
    /\ pre_heap' = EmptyHeap
    /\ pre_ui' = EmptyMap
    /\ last' = [ui |-> pre_ui, edits |-> edits]
    /\ pc' = "idle"
    /\ UNCHANGED <<kind, raw, err, changes, edits>>

\* A failed copy leaves the current config in place; the form state is discarded.
Dismiss ==
    /\ pc = "raised"
    /\ ui_data' = EmptyMap
    /\ err' = "none"
    /\ pre_heap' = EmptyHeap
    /\ pre_ui' = EmptyMap
    /\ pc' = "idle"
    /\ UNCHANGED <<kind, raw, heap, config, ret, changes, edits, last>>

Next ==
    \/ WriteInput
    \/ Construct
    \/ LoadUi
    \/ EditWidget
    \/ OmitEntry
    \/ ExtraEntry
    \/ Submit
    \/ Replace
    \/ Dismiss

Spec == Init /\ [][Next]_vars

----------------------------------------------------------------------------
(* Properties. *)

FileKinds == {"SDXL_FINETUNE", "SD_DIRECT_PREFERENCE_OPTIMIZATION_LORA"}

\* The count rule on a config object.
CountRule(c) ==
    \/ c["negative_validation_prompts"] = None
    \/ PyLen(c["negative_validation_prompts"]) = PyLen(c["validation_prompts"])

\* The prompt lists the input mapping asks for (the class defaults where it is silent).
RawPositive == IF "validation_prompts" \in DOMAIN raw THEN raw["validation_prompts"] ELSE List(<<>>)
RawNegative == IF "negative_validation_prompts" \in DOMAIN raw THEN raw["negative_validation_prompts"] ELSE None
RawMismatch == RawNegative # None /\ PyLen(RawNegative) # PyLen(RawPositive)

\* A call of update_config_with_ui_component_data has just ended.
CallEnded == pc \in {"returned", "raised"}

\* C1: every successfully constructed SdxlFinetuneConfig and
\* SdDirectPreferenceOptimizationLoraConfig has negative_validation_prompts
\* None or as long as validation_prompts.
C1_ConstructedCountRule ==
    (kind \in FileKinds /\ config # NoRef) => CountRule(heap[config])

\* A finetune config was constructed with one negative prompt per prompt.
C1_Witness ==
    /\ kind = "SDXL_FINETUNE"
    /\ pc = "idle"
    /\ heap[config]["negative_validation_prompts"] # None
    /\ PyLen(heap[config]["negative_validation_prompts"]) = 1
    /\ PyLen(heap[config]["validation_prompts"]) = 1

\* C2: constructing either config with a non-None negative_validation_prompts
\* of another length than validation_prompts ends in an error and yields no
\* config; when the fields themselves are valid the error is the validator's
\* ValueError, and the validator raises in no other case.
C2_MismatchRejected ==
    (kind \in FileKinds /\ pc # "start") =>
        /\ RawMismatch => (err # "none" /\ config = NoRef /\ pc = "rejected")
        /\ (RawMismatch /\ err # "ValidationError") => err = "ValueError"
        /\ err = "ValueError" => RawMismatch

\* A DPO config with a valid dataset was rejected by the validator.
C2_Witness ==
    /\ kind = "SD_DIRECT_PREFERENCE_OPTIMIZATION_LORA"
    /\ pc = "rejected"
    /\ err = "ValueError"
    /\ RawMismatch

\* The fields C3 lists: those the group mirrors as a scalar widget.
C3Fields ==
    {"model", "hf_variant", "vae_model", "max_checkpoints", "train_unet", "unet_learning_rate",
     "train_text_encoder", "text_encoder_learning_rate", "lr_scheduler", "lr_warmup_steps",
     "use_masks", "max_grad_norm", "train_batch_size", "cache_text_encoder_outputs",
     "cache_vae_outputs", "enable_cpu_offload_during_validation", "gradient_checkpointing",
     "gradient_accumulation_steps", "weight_dtype", "lora_rank_dim", "min_snr_gamma",
     "num_validation_images_per_prompt"}

SentinelFields == {"unet_learning_rate", "text_encoder_learning_rate", "max_grad_norm"}
OptionalTextFields == {"hf_variant", "vae_model"}

\* The form was filled from the config and copied back unchanged.
RoundTripped == pc = "returned" /\ edits = 0

\* C3 as stated: the config-to-form-to-config round trip returns a config equal
\* to c on every mirrored scalar field.
C3_RoundTripExact ==
    RoundTripped => \A f \in C3Fields : heap[ret][f] = heap[config][f]

\* What a field value comes back as.
RoundTripValue(f, v) ==
    IF f \in SentinelFields /\ v = Num(0) THEN None
    ELSE IF f \in OptionalTextFields /\ v = Str("") THEN None
    ELSE v

\* C3 (amended): the round trip returns a config equal to c on every mirrored
\* scalar field, except that a 0 in unet_learning_rate,
\* text_encoder_learning_rate or max_grad_norm and an empty string in
\* hf_variant or vae_model come back as None.
C3_RoundTripNormalized ==
    RoundTripped => \A f \in C3Fields : heap[ret][f] = RoundTripValue(f, heap[config][f])

\* A config with unet_learning_rate 0 went through the round trip.
C3_Witness ==
    /\ RoundTripped
    /\ heap[config]["unet_learning_rate"] = Num(0)
    /\ heap[ret]["unet_learning_rate"] = None

\* C4: a form value of 0 for unet_learning_rate, text_encoder_learning_rate or
\* max_grad_norm is stored as None; any other form value of these widgets,
\* None included, is stored unchanged.
C4_SentinelStoredAsNone ==
    pc = "returned" =>
        \A f \in SentinelFields :
            heap[ret][f] = IF pre_ui[f] = Num(0) THEN None ELSE pre_ui[f]

\* The form held 0 for one sentinel widget and a number other than 0 for another.
C4_Witness ==
    /\ pc = "returned"
    /\ pre_ui["unet_learning_rate"] = Num(0)
    /\ pre_ui["max_grad_norm"] = Num(1)
    /\ heap[ret]["unet_learning_rate"] = None
    /\ heap[ret]["max_grad_norm"] = Num(1)

\* C5: update_config_with_ui_component_data never modifies the config it is
\* given, whether it returns or raises (nested sub-configs included), and the
\* config it returns is another object.
C5_OrigConfigUnchanged ==
    CallEnded =>
        /\ config \in DOMAIN heap
        /\ Snapshot(heap, config) = Snapshot(pre_heap, config)
        /\ pc = "returned" => (ret # config /\ ret \in DOMAIN heap)

\* A call returned a config that differs from the one it was given.
C5_Witness ==
    /\ pc = "returned"
    /\ Snapshot(heap, ret) # Snapshot(heap, config)
    /\ heap[heap[ret]["optimizer"][2]] # heap[heap[config]["optimizer"][2]]

\* C6 as stated: both copy functions leave their arguments unchanged; ui_data
\* holds the same entries after update_config_with_ui_component_data as before.
C6_ArgumentsUnchanged ==
    /\ (pc = "editing" /\ edits = 0) => Snapshot(heap, config) = Snapshot(pre_heap, config)
    /\ CallEnded => (Snapshot(heap, config) = Snapshot(pre_heap, config) /\ ui_data = pre_ui)

\* d is c restricted to some of its keys.
SubMap(d, c) == DOMAIN d \subseteq DOMAIN c /\ \A k \in DOMAIN d : d[k] = c[k]

\* C6 (amended): both copy functions leave the config they are given unchanged;
\* update_config_with_ui_component_data removes from ui_data the entries it
\* consumes, so ui_data is empty when it returns and holds a part of its former
\* entries when it raises.
C6_ConfigUnchangedDictConsumed ==
    /\ (pc = "editing" /\ edits = 0) => Snapshot(heap, config) = Snapshot(pre_heap, config)
    /\ CallEnded =>
          /\ Snapshot(heap, config) = Snapshot(pre_heap, config)
          /\ SubMap(ui_data, pre_ui)
          /\ pc = "returned" => ui_data = EmptyMap

\* A call returned and left the dict it was given empty.
C6_Witness ==
    /\ pc = "returned"
    /\ pre_ui # EmptyMap
    /\ ui_data = EmptyMap

\* C7: the mapping update_ui_components_with_config_data returns has exactly
\* the group's output components as keys, its own 23 widgets and those of the
\* three sub-groups, so the sanity assertion never fails.
C7_EveryWidgetGetsAValue ==
    /\ pc # "ui_failed"
    /\ (pc = "editing" /\ edits = 0) =>
          /\ DOMAIN ui_data = get_ui_output_components
          /\ DOMAIN ui_data =
                OwnWidgets \cup BasePipelineWidgets \cup DataLoaderWidgets \cup OptimizerWidgets
          /\ Cardinality(DOMAIN ui_data \cap OwnWidgets) = 23

\* The form was filled from a config that a previous copy-back produced.
C7_Witness ==
    /\ pc = "editing"
    /\ edits = 0
    /\ changes > 0
    /\ "use_masks" \in DOMAIN ui_data
    /\ ui_data["use_masks"] = Bool(TRUE)

DpoDataset == heap[heap[heap[config]["data_loader"][2]]["dataset"][2]]

RawTag == IF "dataset.type" \in DOMAIN raw THEN raw["dataset.type"] ELSE None

\* C9: the dataset is selected by its type tag: IMAGE_PAIR_PREFERENCE_DATASET
\* yields an ImagePairPreferenceDatasetConfig and requires dataset_dir,
\* HF_HUB_IMAGE_PAIR_PREFERENCE_DATASET yields an
\* HFHubImagePairPreferenceDatasetConfig with no further fields, any other tag
\* is a validation error, and the variant's type field equals the tag.
C9_DatasetSelectedByTag ==
    (kind = "SD_DIRECT_PREFERENCE_OPTIMIZATION_LORA" /\ pc # "start") =>
        /\ config # NoRef =>
              /\ DpoDataset["type"] = RawTag
              /\ RawTag = Str("IMAGE_PAIR_PREFERENCE_DATASET") =>
                    /\ DpoDataset["__class__"] = Str("ImagePairPreferenceDatasetConfig")
                    /\ DOMAIN DpoDataset = {"__class__", "type", "dataset_dir"}
                    /\ DpoDataset["dataset_dir"] = raw["dataset.dataset_dir"]
              /\ RawTag = Str("HF_HUB_IMAGE_PAIR_PREFERENCE_DATASET") =>
                    /\ DpoDataset["__class__"] = Str("HFHubImagePairPreferenceDatasetConfig")
                    /\ DOMAIN DpoDataset = {"__class__", "type"}
        /\ (RawTag = Str("IMAGE_PAIR_PREFERENCE_DATASET") /\ "dataset.dataset_dir" \notin DOMAIN raw) =>
              (err = "ValidationError" /\ config = NoRef)
        /\ RawTag \notin {Str(t) : t \in DatasetTags} =>
              (err = "ValidationError" /\ config = NoRef)

\* A DPO config was constructed with an image-pair dataset.
C9_Witness ==
    /\ kind = "SD_DIRECT_PREFERENCE_OPTIMIZATION_LORA"
    /\ pc = "idle"
    /\ DpoDataset["__class__"] = Str("ImagePairPreferenceDatasetConfig")
    /\ DpoDataset["dataset_dir"] = Str("/data")

\* C10 as stated: when the call returns, ui_data is empty; when ui_data holds an
\* entry for a component outside the group, the call fails on the final
\* assertion and returns no config.
C10_ForeignEntryFailsAssertion ==
    /\ pc = "returned" => ui_data = EmptyMap
    /\ (CallEnded /\ ForeignComponent \in DOMAIN pre_ui) =>
          (pc = "raised" /\ ret = NoRef /\ err = "AssertionError")

\* C10 (amended): when the call returns, every entry of ui_data was a widget's
\* and ui_data is empty; a dict with exactly one entry per widget is always
\* consumed; when ui_data holds an entry for a component outside the group the
\* call returns no config: it fails on the final assertion if every widget has
\* its entry, and on the first missing entry (KeyError) otherwise.
C10_FormStateConsumed ==
    CallEnded =>
        /\ pc = "returned" => (ui_data = EmptyMap /\ DOMAIN pre_ui = get_ui_output_components)
        /\ DOMAIN pre_ui = get_ui_output_components => pc = "returned"
        /\ ForeignComponent \in DOMAIN pre_ui =>
              /\ pc = "raised"
              /\ ret = NoRef
              /\ err = IF get_ui_output_components \subseteq DOMAIN pre_ui
                       THEN "AssertionError" ELSE "KeyError"

\* A dict with an entry for a foreign component and one for every widget failed
\* the final assertion.
C10_Witness ==
    /\ pc = "raised"
    /\ err = "AssertionError"
    /\ ForeignComponent \in DOMAIN pre_ui
    /\ ui_data = [k \in {ForeignComponent} |-> None]

\* C11: check_validation_prompts tests negative_validation_prompts against None,
\* not against emptiness: with None (given or by default) the validator passes
\* for any number of validation prompts; with an empty negative list and at
\* least one validation prompt construction is rejected; with both lists empty
\* the validator passes.
C11_NoneTestedNotEmptiness ==
    (kind \in FileKinds /\ pc # "start") =>
        /\ RawNegative = None => err # "ValueError"
        /\ (RawNegative = List(<<>>) /\ PyLen(RawPositive) >= 1) =>
              /\ pc = "rejected"
              /\ config = NoRef
              /\ err \in {"ValueError", "ValidationError"}
              /\ kind = "SDXL_FINETUNE" => err = "ValueError"
        /\ (RawNegative = List(<<>>) /\ RawPositive = List(<<>>)) => err # "ValueError"
        /\ (kind = "SDXL_FINETUNE" /\ err = "none") <=> (kind = "SDXL_FINETUNE" /\ pc = "idle")
        /\ (kind = "SDXL_FINETUNE" /\ ~RawMismatch) => pc = "idle"

\* An empty negative list with one validation prompt was rejected by the validator.
C11_Witness ==
    /\ kind = "SDXL_FINETUNE"
    /\ pc = "rejected"
    /\ err = "ValueError"
    /\ RawNegative = List(<<>>)
    /\ RawPositive = List(<<"a">>)

\* C12: an empty-string or None form value for hf_variant or vae_model is
\* stored as None in the returned config and a non-empty string is stored
\* unchanged; model is stored exactly as entered, so an empty model textbox
\* yields model == "".
C12_EmptyTextStoredAsNone ==
    pc = "returned" =>
        /\ \A f \in OptionalTextFields :
              heap[ret][f] = IF pre_ui[f] \in {None, Str("")} THEN None ELSE pre_ui[f]
        /\ heap[ret]["model"] = pre_ui["model"]
        /\ pre_ui["model"] = Str("") => heap[ret]["model"] = Str("")

\* The user emptied the model and the hf_variant text boxes: model came back as
\* "" and hf_variant as None.
C12_Witness ==
    /\ pc = "returned"
    /\ pre_ui["model"] = Str("") /\ heap[ret]["model"] = Str("")
    /\ pre_ui["hf_variant"] = Str("") /\ heap[ret]["hf_variant"] = None
    /\ heap[config]["hf_variant"] = Str("fp16")

\* The group's own scalar widgets: all of its own widgets except the
\* validation-prompts textbox.
OwnScalarWidgets == OwnWidgets \ {"validation_prompts"}

\* The form has just been filled from a config that was copied back from the
\* form state last.ui.
RefilledFromForm == pc = "editing" /\ edits = 0 /\ last # NoForm

\* C13 as stated: the form state round-trips through the config: filling the
\* form from the config copied back from a form state u gives each own scalar
\* widget the value u held for it.
C13_FormRoundTripExact ==
    RefilledFromForm => \A w \in OwnScalarWidgets : ui_data[w] = last.ui[w]

\* C13 (amended): filling the form from the config copied back from a form
\* state u gives each own scalar widget the value u held for it, except that a
\* 0 in unet_learning_rate, text_encoder_learning_rate or max_grad_norm and an
\* empty string in hf_variant or vae_model come back as None.
C13_FormRoundTripNormalized ==
    RefilledFromForm =>
        /\ DOMAIN last.ui = get_ui_output_components
        /\ \A w \in OwnScalarWidgets : ui_data[w] = RoundTripValue(w, last.ui[w])

\* The user cleared a checkbox and emptied hf_variant; the config was copied
\* back and the form filled again: the checkbox is clear and hf_variant is None.
C13_Witness ==
    /\ RefilledFromForm
    /\ last.edits = 2
    /\ last.ui["train_unet"] = Bool(FALSE) /\ ui_data["train_unet"] = Bool(FALSE)
    /\ last.ui["hf_variant"] = Str("") /\ ui_data["hf_variant"] = None

\* The widgets stored without normalisation.
PlainWidgets == OwnScalarWidgets \ (SentinelFields \cup OptionalTextFields)

\* The positions of the pop-and-assign statements that pop widget w, and of
\* those that assign field f.
PopsOf(w) == {i \in 1..Len(Statements) : Statements[i].w = w}
AssignsTo(f) == {i \in 1..Len(Statements) : Statements[i].f = f}

\* C14: field mirroring is one-to-one and name-preserving: for each widget w
\* that is not normalised, update_config_with_ui_component_data writes the
\* value of w to the config field of the same name and to no other field (one
\* statement pops w, it assigns field w, and nothing else assigns field w; the
\* normalised fields hold what their own widgets give), and
\* update_ui_components_with_config_data reads the value of w from that field.
C14_MirroringOneToOne ==
    /\ \A w \in PlainWidgets :
          /\ Cardinality(PopsOf(w)) = 1
          /\ AssignsTo(w) = PopsOf(w)
          /\ UpdateDictReads[w] = w
    /\ pc = "returned" =>
          /\ \A w \in PlainWidgets : heap[ret][w] = pre_ui[w]
          /\ \A f \in SentinelFields \cup OptionalTextFields :
                heap[ret][f] = RoundTripValue(f, pre_ui[f])
    /\ (pc = "editing" /\ edits = 0) =>
          \A w \in PlainWidgets : ui_data[w] = heap[config][w]

\* The user cleared the train_unet checkbox: the returned config has train_unet
\* False and train_text_encoder as it was.
C14_Witness ==
    /\ pc = "returned"
    /\ edits = 1
    /\ heap[config]["train_unet"] = Bool(TRUE)
    /\ pre_ui["train_unet"] = Bool(FALSE)
    /\ heap[ret]["train_unet"] = Bool(FALSE)
    /\ heap[ret]["train_text_encoder"] = Bool(TRUE)

\* The fields of an SdxlLoraConfig that no widget of the group or of its
\* sub-groups mirrors, and those of its data_loader and optimizer.
UnmirroredFields(c) ==
    DOMAIN c \ (OwnScalarWidgets \cup BasePipelineWidgets
                   \cup {"validation_prompts", "negative_validation_prompts", "optimizer", "data_loader"})
UnmirroredSubFields(h, c, sub, widgets) == DOMAIN h[h[c][sub][2]] \ widgets

\* C15: the config fields that SdxlLoraConfigGroup and its sub-groups do not
\* mirror as a widget have, in the returned config, the value they have in
\* orig_config, for every form state.
C15_UnmirroredFieldsKept ==
    pc = "returned" =>
        /\ UnmirroredFields(heap[ret]) = UnmirroredFields(heap[config])
        /\ \A f \in UnmirroredFields(heap[config]) : heap[ret][f] = heap[config][f]
        /\ \A f \in UnmirroredSubFields(heap, config, "data_loader", DataLoaderWidgets) :
              heap[heap[ret]["data_loader"][2]][f] = heap[heap[config]["data_loader"][2]][f]
        /\ \A f \in UnmirroredSubFields(heap, config, "optimizer", OptimizerWidgets) :
              heap[heap[ret]["optimizer"][2]][f] = heap[heap[config]["optimizer"][2]][f]

\* The config file set xformers, which no widget mirrors; the user changed a
\* widget and the returned config still has xformers set.
C15_Witness ==
    /\ pc = "returned"
    /\ edits = 1
    /\ "xformers" \in UnmirroredFields(heap[config])
    /\ heap[config]["xformers"] = Bool(TRUE)
    /\ heap[ret]["xformers"] = Bool(TRUE)
    /\ Snapshot(heap, ret) # Snapshot(heap, config)

\* The widgets in the order the call pops them: the own scalar widgets, the
\* validation-prompts textbox, then the data-loader, base-pipeline and
\* optimizer sub-groups.
PopOrder ==
    [i \in 1..Len(Statements) |-> Statements[i].w]
        \o <<"validation_prompts",
             CHOOSE w \in DataLoaderWidgets : TRUE,
             CHOOSE w \in BasePipelineWidgets : TRUE,
             CHOOSE w \in OptimizerWidgets : TRUE>>

\* The position in PopOrder of the first widget the dict u has no entry for.
FirstMissing(u) ==
    CHOOSE i \in 1..Len(PopOrder) :
        /\ PopOrder[i] \notin DOMAIN u
        /\ \A j \in 1..(i - 1) : PopOrder[j] \in DOMAIN u

\* The dict u without the entries popped before position i.
WithoutPopped(u, i) == [k \in DOMAIN u \ {PopOrder[j] : j \in 1..(i - 1)} |-> u[k]]

EntryMissing(u) == ~(get_ui_output_components \subseteq DOMAIN u)

\* C16: if ui_data lacks the entry of a widget of the group, the call fails
\* with a KeyError at the first missing key and returns no config; orig_config
\* is unchanged, and exactly the entries popped before the failure are gone
\* from ui_data.
C16_MissingEntryKeyError ==
    (CallEnded /\ EntryMissing(pre_ui)) =>
        /\ pc = "raised"
        /\ err = "KeyError"
        /\ ret = NoRef
        /\ Snapshot(heap, config) = Snapshot(pre_heap, config)
        /\ ui_data = WithoutPopped(pre_ui, FirstMissing(pre_ui))

\* The dict lacked the entry of use_masks: the call raised KeyError, the entry
\* of model, popped earlier, is gone and the entry of max_grad_norm, popped
\* later, is still there.
C16_Witness ==
    /\ pc = "raised"
    /\ err = "KeyError"
    /\ "use_masks" \notin DOMAIN pre_ui
    /\ "model" \in DOMAIN pre_ui /\ "model" \notin DOMAIN ui_data
    /\ "max_grad_norm" \in DOMAIN ui_data
    /\ PopOrder[FirstMissing(pre_ui)] = "use_masks"

\* Numbers for which 0 is a value, not a sentinel.
ZeroKeptFields == {"min_snr_gamma", "max_checkpoints", "lr_warmup_steps", "lora_rank_dim"}

\* C17: the sentinel normalisation applies only to unet_learning_rate,
\* text_encoder_learning_rate and max_grad_norm: a form value of 0 for
\* min_snr_gamma, max_checkpoints, lr_warmup_steps or lora_rank_dim is stored in
\* the returned config as 0, not as None.
C17_ZeroKeptOutsideSentinels ==
    pc = "returned" =>
        /\ \A f \in ZeroKeptFields : pre_ui[f] = Num(0) => heap[ret][f] = Num(0)
        /\ \A f \in OwnScalarWidgets \ (SentinelFields \cup OptionalTextFields) :
              heap[ret][f] = None => pre_ui[f] = None

\* The user set min_snr_gamma and max_grad_norm to 0: min_snr_gamma came back
\* as 0 and max_grad_norm as None.
C17_Witness ==
    /\ pc = "returned"
    /\ heap[config]["min_snr_gamma"] = Num(5)
    /\ pre_ui["min_snr_gamma"] = Num(0) /\ heap[ret]["min_snr_gamma"] = Num(0)
    /\ pre_ui["max_grad_norm"] = Num(0) /\ heap[ret]["max_grad_norm"] = None

\* The current config is R(c), the result of a config-to-form-to-config round
\* trip without a change to the form, and R has just been applied to it again.
RoundTrippedTwice == pc = "returned" /\ edits = 0 /\ last # NoForm /\ last.edits = 0

\* C18: the config-to-form-to-config round trip R is idempotent on the group's
\* own scalar fields: R(R(c)) equals R(c) on every mirrored scalar field, and
\* R(c) holds no 0 in a sentinel field and no empty string in hf_variant or
\* vae_model.
C18_RoundTripIdempotent ==
    RoundTrippedTwice =>
        /\ \A f \in C3Fields : heap[ret][f] = heap[config][f]
        /\ \A f \in SentinelFields : heap[config][f] # Num(0)
        /\ \A f \in OptionalTextFields : heap[config][f] # Str("")

\* The config file had max_grad_norm 0 and an empty hf_variant; after one round
\* trip both are None, and after a second one they still are.
C18_Witness ==
    /\ RoundTrippedTwice
    /\ "max_grad_norm" \in DOMAIN raw /\ raw["max_grad_norm"] = Num(0)
    /\ "hf_variant" \in DOMAIN raw /\ raw["hf_variant"] = Str("")
    /\ heap[config]["max_grad_norm"] = None /\ heap[ret]["max_grad_norm"] = None
    /\ heap[config]["hf_variant"] = None /\ heap[ret]["hf_variant"] = None

====
